---- MODULE Spec2Model ----
(***************************************************************************)
(* Audit/compliance logging subsystem of the church administration        *)
(* backend: the AuditLog model (src/src/models/AuditLog.js), the review    *)
(* handlers of src/src/controllers/auditLogController.js and the admin    *)
(* activity log of src/src/models/Admin.js.                                *)
(*                                                                         *)
(* Mongoose behaviour the source relies on and that is modelled here:      *)
(*   - a schema default is applied when a document is constructed and the  *)
(*     path is undefined (Absent); an explicit null is kept as it is;      *)
(*   - save() validates first (required, enum; enum accepts null on a      *)
(*     path that is not required), then runs the pre('save') hooks, then   *)
(*     writes; a failure of any of the three rejects and writes nothing.   *)
(*                                                                         *)
(* The handlers flagAuditLog and reviewAuditLog are modelled as the        *)
(* controller exports them, from the first statement to the response;      *)
(* req.admin is taken to be the Admin document of the caller, as the       *)
(* handlers use it (req.admin._id, req.admin.logActivity).                 *)
(* triggerSecurityAlert is the place where notifications attach; whether   *)
(* it returns or throws is an input of logAction.                          *)
(*                                                                         *)
(* The retention cleanup, the compliance report and the recent alerts are  *)
(* handlers written in the route file (src/unnamed/part_002); the cleanup  *)
(* is modelled in two steps, one on each side of the await between its     *)
(* countDocuments and its deleteMany or updateMany.                        *)
(* The routes are modelled with their middleware (src/unnamed/part_000) as *)
(* they are mounted; the handlers of the other sections start at their     *)
(* first statement.                                                        *)
(***************************************************************************)
EXTENDS Integers, Sequences, FiniteSets

VARIABLES
    store,        \* audit_logs collection: record id -> persisted document
    origin,       \* history: record id -> the logData and the time of the logAction call that made it
    nextId,       \* next document id
    now,          \* the clock read by new Date()
    call,         \* the logAction call in progress, or the last one returned
    activityLog,  \* Admin.activityLog of every admin
    resp,         \* the last response sent by a handler that runs in one step
    classified,   \* the last evaluation of the risk classifier
    reqs,         \* the requests that are followed await by await: slot -> request
    out           \* the payload of the last read or export

vars == <<store, origin, nextId, now, call, activityLog, resp, classified, reqs, out>>

\* ------------------------------------------------------------------ bounds
MaxLogs == 2
MaxTime == 3
MaxRequests == 2
MaxRows == 3

\* ------------------------------------------------------- values and enums
Absent == "<undefined>"   \* a string path that is not set
Null == "<null>"

\* dates: NoDate is a Date path that is not set, OldDate a date before the
\* service started, StartTime the first reading of the clock
NoDate == 0
OldDate == NoDate + 1
StartTime == OldDate + 1

\* AuditLog.js 257-260
criticalActions ==
    <<"hard_delete_user", "reset_all_settings", "import_settings",
      "create_super_admin", "delete_admin", "system_shutdown">>

\* AuditLog.js 262-265
highRiskActions ==
    <<"update_user_status", "reset_user_password", "delete_user",
      "update_admin_role", "update_system_settings", "bulk_user_operation">>

\* AuditLog.js 267-270
mediumRiskActions ==
    <<"verify_user", "create_admin", "update_settings_category",
      "export_settings", "view_system_settings">>

\* AuditLog.js 280-284
sensitiveActions ==
    <<"reset_user_password", "view_user_details", "export_settings",
      "view_system_settings", "update_system_settings", "create_admin",
      "update_admin_role", "delete_admin", "bulk_user_operation">>

\* AuditLog.js 12-16
actionCategoryEnum ==
    {"authentication", "user_management", "admin_management",
     "system_settings", "dashboard", "biometric", "security",
     "data_export", "data_import", "backup", "maintenance"}

\* AuditLog.js 28
actorTypeEnum == {"admin", "user", "system"}

\* AuditLog.js 58
targetTypeEnum == {"user", "admin", "settings", "system", "data", "session"}

\* AuditLog.js 119
riskLevelEnum == {"low", "medium", "high", "critical"}

\* AuditLog.js 132
retentionCategoryEnum == {"standard", "extended", "permanent"}

EmptyFn == [i \in {} |-> Absent]

Range(s) == {s[i] : i \in DOMAIN s}

\* Array.prototype.includes: a scan from the first element
includes(arr, x) == \E i \in 1..Len(arr) : arr[i] = x

\* ------------------------------------------------------- risk classifier
determineRiskLevel_ignoreCritical(action, category) ==
    IF includes(highRiskActions, action) THEN "high"
    ELSE IF includes(mediumRiskActions, action) THEN "medium"
    ELSE "low"

determineRiskLevel(action, category) ==
    IF includes(criticalActions, action) THEN "critical"
    ELSE IF includes(highRiskActions, action) THEN "high"
    ELSE IF includes(mediumRiskActions, action) THEN "medium"
    ELSE "low"

isSensitiveAction_byRisk(action) ==
    determineRiskLevel(action, Absent) \in {"high", "critical"}

isSensitiveAction(action) == includes(sensitiveActions, action)

\* ------------------------------------------------------------ documents
\* new AuditLog({...}): the given paths, schema defaults for undefined ones
\* (riskLevel 'low', sensitiveAction false, retentionCategory 'standard',
\* timestamp Date.now, flagged false, reviewed false)
Get(data, path, default) == IF path \in DOMAIN data THEN data[path] ELSE default

NewDoc(data, t) ==
    [action            |-> Get(data, "action", Absent),
     actionCategory    |-> Get(data, "actionCategory", Absent),
     description       |-> Get(data, "description", Absent),
     actorType         |-> Get(data, "actorType", Absent),
     actorId           |-> Get(data, "actorId", Absent),
     actorIP           |-> Get(data, "actorIP", Absent),
     targetType        |-> Get(data, "targetType", Absent),
     targetId          |-> Get(data, "targetId", Absent),
     riskLevel         |-> Get(data, "riskLevel", "low"),
     sensitiveAction   |-> Get(data, "sensitiveAction", FALSE),
     retentionCategory |-> Get(data, "retentionCategory", "standard"),
     timestamp         |-> Get(data, "timestamp", t),
     success           |-> Get(data, "success", TRUE),
     flagged           |-> Get(data, "flagged", FALSE),
     flagReason        |-> Get(data, "flagReason", Absent),
     reviewed          |-> Get(data, "reviewed", FALSE),
     reviewNotes       |-> Get(data, "reviewNotes", Absent),
     reviewedBy        |-> Get(data, "reviewedBy", Absent),
     reviewedAt        |-> Get(data, "reviewedAt", NoDate)]

\* the validation save() runs before the pre('save') hooks
validate(doc) ==
    /\ doc.action \notin {Absent, Null}
    /\ doc.actionCategory \in actionCategoryEnum
    /\ doc.description \notin {Absent, Null}
    /\ doc.actorType \in actorTypeEnum
    /\ doc.actorId \notin {Absent, Null}
    /\ doc.targetType \in targetTypeEnum \cup {Absent, Null}
    /\ doc.riskLevel \in riskLevelEnum \cup {Null}
    /\ doc.retentionCategory \in retentionCategoryEnum \cup {Null}
    /\ doc.timestamp # NoDate

falsy_undefinedOnly(v) == v \in {Absent, Null}

\* !value for a String path
falsy(v) == v \in {Absent, Null, ""}

\* the three branches of the hook: critical, high or sensitive, otherwise
retentionFor(riskLevel, sensitiveAction) ==
    IF riskLevel = "critical" THEN "permanent"
    ELSE IF riskLevel = "high" \/ sensitiveAction = TRUE THEN "extended"
    ELSE "standard"

\* auditLogSchema.pre('save')
preSave(doc, t) ==
    LET d1 == IF doc.timestamp = NoDate THEN [doc EXCEPT !.timestamp = t] ELSE doc
    IN  IF falsy(d1.retentionCategory)
        THEN [d1 EXCEPT !.retentionCategory = retentionFor(d1.riskLevel, d1.sensitiveAction)]
        ELSE d1

\* ------------------------------------------------------------- logAction
\* object spread { ...a, ...b }
Spread(a, b) ==
    [k \in DOMAIN a \cup DOMAIN b |-> IF k \in DOMAIN b THEN b[k] ELSE a[k]]

\* { ...logData, riskLevel, sensitiveAction, timestamp: new Date() }
logActionData(logData, t) ==
    Spread(logData,
           [riskLevel       |-> determineRiskLevel(logData.action, logData.actionCategory),
            sensitiveAction |-> isSensitiveAction(logData.action),
            timestamp       |-> t])

shouldAlert_highOnly(riskLevel, sensitiveAction) ==
    riskLevel = "high" \/ riskLevel = "critical"

\* riskLevel === 'high' || riskLevel === 'critical' || sensitiveAction
shouldAlert(riskLevel, sensitiveAction) ==
    riskLevel = "high" \/ riskLevel = "critical" \/ sensitiveAction = TRUE

\* what logAction does once save() has resolved: the branch on the locals
\* riskLevel and sensitiveAction, then triggerSecurityAlert, which has no handler
\* of its own, so that what it throws reaches the catch of logAction
afterSave(id, riskLevel, sensitiveAction, alertOk) ==
    IF shouldAlert(riskLevel, sensitiveAction)
    THEN IF alertOk
         THEN [events |-> <<"alert">>, alertArg |-> id, alertThrew |-> FALSE,
               ret |-> id, raised |-> FALSE]
         ELSE [events |-> <<"alert", "catch">>, alertArg |-> id, alertThrew |-> TRUE,
               ret |-> 0, raised |-> FALSE]
    ELSE [events |-> <<>>, alertArg |-> 0, alertThrew |-> FALSE, ret |-> id, raised |-> FALSE]

onSaveFailure_rethrow ==
    [events |-> <<"catch">>, alertArg |-> 0, ret |-> 0, raised |-> TRUE]

\* catch (error) { console.error(...); return null; } when save() rejects
onSaveFailure ==
    [events |-> <<"catch">>, alertArg |-> 0, ret |-> 0, raised |-> FALSE]

\* no logAction call made yet; ret 0 is the null a call returns from its catch
NoCall ==
    [logData |-> EmptyFn, at |-> NoDate, idsBefore |-> {}, saved |-> FALSE, id |-> 0,
     events |-> <<>>, alertArg |-> 0, alertThrew |-> FALSE, ret |-> 0, raised |-> FALSE]

\* auditLogSchema.statics.logAction. dbOk: the write of save() succeeds;
\* alertOk: triggerSecurityAlert returns without throwing.
\* call records the call: its events in program order, the document handed to
\* the dispatcher, and what the caller got
LogAction(logData, dbOk, alertOk) ==
    /\ nextId <= MaxLogs
    /\ LET riskLevel == determineRiskLevel(logData.action, logData.actionCategory)
           sensitiveAction == isSensitiveAction(logData.action)
           auditLog == NewDoc(logActionData(logData, now), now)
       IN  IF validate(auditLog) /\ dbOk
           THEN LET d == preSave(auditLog, now)
                    after == afterSave(nextId, riskLevel, sensitiveAction, alertOk)
                IN  /\ store' = [i \in DOMAIN store \cup {nextId} |->
                                   IF i = nextId THEN d ELSE store[i]]
                    /\ origin' = [i \in DOMAIN origin \cup {nextId} |->
                                   IF i = nextId
                                   THEN [logData |-> logData, at |-> now, doc |-> d]
                                   ELSE origin[i]]
                    /\ nextId' = nextId + 1
                    /\ call' = [logData |-> logData, at |-> now,
                                idsBefore |-> DOMAIN store, saved |-> TRUE, id |-> nextId,
                                events |-> <<"save">> \o after.events \o <<"return">>,
                                alertArg |-> after.alertArg,
                                alertThrew |-> after.alertThrew,
                                ret |-> after.ret, raised |-> after.raised]
           ELSE /\ call' = [logData |-> logData, at |-> now,
                            idsBefore |-> DOMAIN store, saved |-> FALSE, id |-> 0,
                            events |-> onSaveFailure.events \o
                                       (IF onSaveFailure.raised THEN <<>> ELSE <<"return">>),
                            alertArg |-> onSaveFailure.alertArg, alertThrew |-> FALSE,
                            ret |-> onSaveFailure.ret, raised |-> onSaveFailure.raised]
                /\ UNCHANGED <<store, origin, nextId>>
    /\ UNCHANGED <<now, activityLog, resp, classified, reqs, out>>

\* the clock advances
Tick ==
    /\ now < MaxTime
    /\ now' = now + 1
    /\ UNCHANGED <<store, origin, nextId, call, activityLog, resp, classified, reqs, out>>

\* ------------------------------------------------------- review workflow
flag_reopens(doc, reason, reviewerId, t) ==
    [doc EXCEPT !.flagged = TRUE, !.flagReason = reason,
                !.reviewedBy = reviewerId, !.reviewedAt = t,
                !.reviewed = FALSE, !.reviewNotes = Absent]

flag_touchTimestamp(doc, reason, reviewerId, t) ==
    [doc EXCEPT !.flagged = TRUE, !.flagReason = reason,
                !.reviewedBy = reviewerId, !.reviewedAt = t, !.timestamp = t]

flag_keepFirst(doc, reason, reviewerId, t) ==
    IF doc.flagged THEN doc
    ELSE [doc EXCEPT !.flagged = TRUE, !.flagReason = reason,
                     !.reviewedBy = reviewerId, !.reviewedAt = t]

\* auditLogSchema.methods.flag, up to its save()
flag(doc, reason, reviewerId, t) ==
    [doc EXCEPT !.flagged = TRUE, !.flagReason = reason,
                !.reviewedBy = reviewerId, !.reviewedAt = t]

review_clearsFlag(doc, notes, reviewerId, t) ==
    [doc EXCEPT !.reviewed = TRUE, !.reviewNotes = notes,
                !.reviewedBy = reviewerId, !.reviewedAt = t,
                !.flagged = FALSE, !.flagReason = Absent]

\* auditLogSchema.methods.review, up to its save()
review(doc, notes, reviewerId, t) ==
    [doc EXCEPT !.reviewed = TRUE, !.reviewNotes = notes,
                !.reviewedBy = reviewerId, !.reviewedAt = t]

\* Admin.js 352
ActivityLogCap == 100

\* adminSchema.methods.logActivity: push, keep the last 100; the entry goes to
\* the admin's own activityLog, AuditLog.logAction is not called
logActivity(log, entry) ==
    LET pushed == Append(log, entry)
    IN  IF Len(pushed) > ActivityLogCap
        THEN SubSeq(pushed, Len(pushed) - ActivityLogCap + 1, Len(pushed))
        ELSE pushed

\* what the handler answered, with the request it answered; n counts the requests
Response(op, status, admin, logId, arg) ==
    [n |-> resp.n + 1, op |-> op, status |-> status, admin |-> admin, logId |-> logId,
     arg |-> arg, at |-> now]

\* flagAuditLog and reviewAuditLog from the document's method on: the method and
\* its save(), req.admin.logActivity, res.json; fault names the await that rejects
Annotate(op, admin, logId, arg, changed, fault) ==
    IF fault = "save" \/ ~validate(changed)
    THEN /\ resp' = Response(op, 500, admin, logId, arg)
         /\ UNCHANGED <<store, activityLog>>
    ELSE /\ store' = [store EXCEPT ![logId] = preSave(changed, now)]
         /\ IF fault = "activity"
            THEN /\ resp' = Response(op, 500, admin, logId, arg)
                 /\ UNCHANGED activityLog
            ELSE /\ activityLog' =
                       [activityLog EXCEPT ![admin] =
                           logActivity(@, [action |-> op, auditLogId |-> logId])]
                 /\ resp' = Response(op, 200, admin, logId, arg)

\* exports.flagAuditLog
FlagAuditLog(admin, logId, reason, fault) ==
    /\ resp.n < MaxRequests
    /\ IF falsy(reason)
       THEN /\ resp' = Response("flag_audit_log", 400, admin, logId, reason)
            /\ UNCHANGED <<store, activityLog>>
       ELSE IF fault = "find"
       THEN /\ resp' = Response("flag_audit_log", 500, admin, logId, reason)
            /\ UNCHANGED <<store, activityLog>>
       ELSE IF logId \notin DOMAIN store
       THEN /\ resp' = Response("flag_audit_log", 404, admin, logId, reason)
            /\ UNCHANGED <<store, activityLog>>
       ELSE Annotate("flag_audit_log", admin, logId, reason,
                     flag(store[logId], reason, admin, now), fault)
    /\ UNCHANGED <<origin, nextId, now, call, classified, reqs, out>>

\* exports.reviewAuditLog
ReviewAuditLog(admin, logId, notes, fault) ==
    /\ resp.n < MaxRequests
    /\ IF fault = "find"
       THEN /\ resp' = Response("review_audit_log", 500, admin, logId, notes)
            /\ UNCHANGED <<store, activityLog>>
       ELSE IF logId \notin DOMAIN store
       THEN /\ resp' = Response("review_audit_log", 404, admin, logId, notes)
            /\ UNCHANGED <<store, activityLog>>
       ELSE Annotate("review_audit_log", admin, logId, notes,
                     review(store[logId], notes, admin, now), fault)
    /\ UNCHANGED <<origin, nextId, now, call, classified, reqs, out>>

\* ------------------------------------------------------------------ inputs
\* action names audited in the runs: critical, critical and sensitive, high,
\* medium and sensitive, low and sensitive, and one the classifier does not know
Actions ==
    {"hard_delete_user", "delete_admin", "update_user_status",
     "view_system_settings", "view_user_details", "foo_bar"}

\* what a caller puts in the four derived fields: nothing, values of its own
\* for all four, or a retentionCategory that is no member of the enum
CallerDerived ==
    {EmptyFn,
     [riskLevel |-> "critical", sensitiveAction |-> TRUE, timestamp |-> OldDate,
      retentionCategory |-> "permanent"],
     [riskLevel |-> "low", sensitiveAction |-> FALSE, timestamp |-> OldDate,
      retentionCategory |-> Null],
     [retentionCategory |-> "bogus"]}

LogData(action, derived) ==
    Spread([action         |-> action,
            actionCategory |-> "user_management",
            description    |-> "description",
            actorType      |-> "admin",
            actorId        |-> "adminA"],
           derived)

\* logAction calls of the write path: every class of action, with and without
\* caller-supplied derived fields
WriteInputs == {LogData(a, d) : a \in Actions, d \in CallerDerived}

Admins == {"adminA", "adminB"}

NotClassified ==
    [action |-> Absent, category |-> Absent, done |-> FALSE, riskLevel |-> Absent,
     sensitive |-> FALSE]

\* the slots of the requests that are followed await by await
Slots == {"r1", "r2", "r3"}

\* a slot no request has used yet
Idle ==
    [pc |-> "idle", op |-> "none", admin |-> Absent, logId |-> 0, arg |-> Absent,
     loaded |-> EmptyFn, doc |-> EmptyFn, at |-> NoDate, raced |-> FALSE, status |-> 0,
     params |-> EmptyFn, count |-> 0, selected |-> {}, removed |-> {}, marked |-> {}]

\* no read answered yet
NoOutput == [op |-> "none"]

Init ==
    /\ store = EmptyFn
    /\ origin = EmptyFn
    /\ nextId = 1
    /\ now = StartTime
    /\ call = NoCall
    /\ activityLog = [a \in Admins |-> <<>>]
    /\ resp = [n |-> 0, op |-> "none", status |-> 0, admin |-> Absent, logId |-> 0,
               arg |-> Absent, at |-> NoDate]
    /\ classified = NotClassified
    /\ reqs = [s \in Slots |-> Idle]
    /\ out = NoOutput

NextWrite ==
    \E logData \in WriteInputs, dbOk \in BOOLEAN, alertOk \in BOOLEAN :
        LogAction(logData, dbOk, alertOk)

\* logAction calls made while the review workflow is exercised
ReviewInputs ==
    {LogData("hard_delete_user", EmptyFn)}

\* flag requests: who asks, and req.body.reason (given, empty, or missing)
FlagRequests ==
    {[admin |-> "adminA", reason |-> "reason one"],
     [admin |-> "adminB", reason |-> "reason two"],
     [admin |-> "adminA", reason |-> ""],
     [admin |-> "adminB", reason |-> Absent]}

\* review requests: who asks, and req.body.notes
ReviewRequests ==
    {[admin |-> "adminA", notes |-> "notes"],
     [admin |-> "adminB", notes |-> Absent]}

\* the await that rejects while a request is handled, if one does
Faults == {"none", "find", "save", "activity"}

Next ==
    \/ Tick
    \/ \E logData \in ReviewInputs : LogAction(logData, TRUE, TRUE)
    \/ \E r \in FlagRequests, logId \in 1..MaxLogs, fault \in Faults :
          FlagAuditLog(r.admin, logId, r.reason, fault)
    \/ \E r \in ReviewRequests, logId \in 1..MaxLogs, fault \in Faults :
          ReviewAuditLog(r.admin, logId, r.notes, fault)

\* the audit log with its review workflow
Spec == Init /\ [][Next]_vars

\* the write path alone: logAction calls with every kind of input, all at one
\* reading of the clock (the caller-supplied timestamp is an earlier date)
SpecWrite == Init /\ [][NextWrite]_vars

\* ------------------------------- flag and review followed await by await
\* The handlers await findById, then the document's method, whose last statement
\* awaits save(). Between the two awaits other requests run. save() of a loaded
\* document writes the paths that were modified since it was loaded (a path set
\* to the value it already had is not modified), not the whole document.
saveModified_wholeDocument(current, loaded, doc) == doc

\* the update save() sends for a loaded document, applied to the stored one
saveModified(current, loaded, doc) ==
    [k \in DOMAIN current |-> IF doc[k] # loaded[k] THEN doc[k] ELSE current[k]]

\* requests that race on one record: who asks, which handler, reason or notes
RaceRequests ==
    {[op |-> "flag_audit_log", admin |-> "adminA", arg |-> "reason one"],
     [op |-> "flag_audit_log", admin |-> "adminB", arg |-> "reason two"],
     [op |-> "review_audit_log", admin |-> "adminA", arg |-> "notes"],
     [op |-> "review_audit_log", admin |-> "adminB", arg |-> "notes two"]}

\* the record the racing requests name
RaceTargets == {1}

\* flagAuditLog / reviewAuditLog up to the await of save(): the check of the
\* reason, findById, the 404, and the assignments of the document's method
BeginAnnotate(slot, op, admin, logId, arg) ==
    /\ reqs[slot].pc = "idle"
    /\ LET r == [Idle EXCEPT !.op = op, !.admin = admin, !.logId = logId,
                             !.arg = arg, !.at = now]
       IN  reqs' = [reqs EXCEPT ![slot] =
                IF op = "flag_audit_log" /\ falsy(arg)
                THEN [r EXCEPT !.pc = "done", !.status = 400]
                ELSE IF logId \notin DOMAIN store
                THEN [r EXCEPT !.pc = "done", !.status = 404]
                ELSE [r EXCEPT !.pc = "found",
                               !.loaded = store[logId],
                               !.doc = IF op = "flag_audit_log"
                                       THEN flag(store[logId], arg, admin, now)
                                       ELSE review(store[logId], arg, admin, now)]]
    /\ UNCHANGED <<store, origin, nextId, now, call, activityLog, resp, classified, out>>

\* the rest of the handler: save() writes, req.admin.logActivity, res.json.
\* raced: another request had loaded the record and not yet saved it
EndAnnotate(slot) ==
    /\ reqs[slot].pc = "found"
    /\ LET r == reqs[slot]
           raced == \E o \in Slots \ {slot} :
                       reqs[o].pc = "found" /\ reqs[o].logId = r.logId
       IN  IF r.logId \notin DOMAIN store \/ ~validate(r.doc)
           THEN /\ reqs' = [reqs EXCEPT ![slot] = [r EXCEPT !.pc = "done", !.status = 500]]
                /\ UNCHANGED <<store, activityLog>>
           ELSE /\ store' = [store EXCEPT ![r.logId] =
                                saveModified(@, r.loaded, preSave(r.doc, now))]
                /\ activityLog' =
                       [activityLog EXCEPT ![r.admin] =
                           logActivity(@, [action |-> r.op, auditLogId |-> r.logId])]
                /\ reqs' = [reqs EXCEPT ![slot] =
                               [r EXCEPT !.pc = "done", !.status = 200, !.raced = raced]]
    /\ UNCHANGED <<origin, nextId, now, call, resp, classified, out>>

\* a new request takes a slot that no request has used; which one is of no
\* consequence, the slots being names only
FreeSlots == {s \in Slots : reqs[s].pc = "idle"}

FreeSlot == CHOOSE s \in FreeSlots : TRUE

NextRace ==
    \/ Tick
    \/ \E logData \in ReviewInputs : LogAction(logData, TRUE, TRUE)
    \/ \E r \in RaceRequests, logId \in RaceTargets :
          /\ FreeSlots # {}
          /\ BeginAnnotate(FreeSlot, r.op, r.admin, logId, r.arg)
    \/ \E slot \in Slots : EndAnnotate(slot)

\* flag and review requests on one record, interleaved at their awaits
SpecRace == Init /\ [][NextRace]_vars

\* ------------------------------------------------------ retention cleanup
\* POST /cleanup (src/unnamed/part_002, 281-338), from the first statement of
\* the handler. One unit of the clock is one day.
\* the paths of auditLogSchema that the documents of this model carry
SchemaPaths == DOMAIN NewDoc(EmptyFn, NoDate)

\* the schema is strict (no strict option is given): an update is cast to the
\* schema and the paths the schema does not declare are dropped from it
castUpdate(update) == [k \in DOMAIN update \cap SchemaPaths |-> update[k]]

selects_ignoreCritical(query, doc) == doc.timestamp < query.cutoffDate

\* { timestamp: { $lt: cutoffDate }, ...(preserveCritical && { riskLevel: { $nin: ['critical'] } }) }
selects(query, doc) ==
    /\ doc.timestamp < query.cutoffDate
    /\ query.preserveCritical => doc.riskLevel \notin {"critical"}

\* the documents of a collection a cleanup query matches
matching(st, query) == {i \in DOMAIN st : selects(query, st[i])}

countDocuments(st, query) == Cardinality(matching(st, query))

deleteMany(st, query) == [i \in DOMAIN st \ matching(st, query) |-> st[i]]

updateMany_remove(st, query, update) == deleteMany(st, query)

updateMany(st, query, update) ==
    [i \in DOMAIN st |->
        IF i \in matching(st, query) THEN Spread(st[i], castUpdate(update)) ELSE st[i]]

\* the handler up to the await of countDocuments: the body's defaults are given
\* by the caller here, the action is checked, the cutoff is computed from the
\* clock, the matching records are counted
CleanupCount(slot, admin, action, olderThanDays, preserveCritical) ==
    /\ reqs[slot].pc = "idle"
    /\ LET r == [Idle EXCEPT !.op = "cleanup_audit_logs", !.admin = admin, !.at = now]
           query == [cutoffDate |-> now - olderThanDays,
                     preserveCritical |-> preserveCritical]
       IN  reqs' = [reqs EXCEPT ![slot] =
                IF action \notin {"archive", "delete"}
                THEN [r EXCEPT !.pc = "done", !.status = 400,
                               !.params = [action |-> action]]
                ELSE [r EXCEPT !.pc = "counted",
                               !.params = Spread([action |-> action], query),
                               !.count = countDocuments(store, query)]]
    /\ UNCHANGED <<store, origin, nextId, now, call, activityLog, resp, classified, out>>

\* the rest of the handler: deleteMany or updateMany with the same query,
\* req.admin.logActivity, and the response that carries the count taken before.
\* selected, removed and marked record what this step found and did
CleanupApply(slot) ==
    /\ reqs[slot].pc = "counted"
    /\ LET r == reqs[slot]
           query == [cutoffDate |-> r.params.cutoffDate,
                     preserveCritical |-> r.params.preserveCritical]
           after == IF r.params.action = "delete"
                    THEN deleteMany(store, query)
                    ELSE updateMany(store, query, [archived |-> TRUE])
       IN  /\ store' = after
           /\ activityLog' =
                  [activityLog EXCEPT ![r.admin] =
                      logActivity(@, [action |-> r.op, auditLogId |-> 0])]
           /\ reqs' = [reqs EXCEPT ![slot] =
                  [r EXCEPT !.pc = "done", !.status = 200,
                            !.selected = matching(store, query),
                            !.removed = DOMAIN store \ DOMAIN after,
                            !.marked = {i \in DOMAIN after :
                                           /\ i \in matching(store, query)
                                           /\ "archived" \in DOMAIN after[i]}]]
    /\ UNCHANGED <<origin, nextId, now, call, resp, classified, out>>

\* what is logged before and between cleanups: a critical action and a low one
CleanupInputs ==
    {LogData("hard_delete_user", EmptyFn), LogData("foo_bar", EmptyFn)}

\* req.body of the cleanup requests
CleanupActions == {"archive", "delete", "purge"}

CleanupDays == {0, 1}

\* one cleanup request, with records logged and flagged before it and between
\* its two awaits, up to its response
NextCleanup ==
    \/ /\ reqs["r1"].pc # "done"
       /\ \/ Tick
          \/ \E logData \in CleanupInputs : LogAction(logData, TRUE, TRUE)
          \/ \E logId \in 1..MaxLogs : FlagAuditLog("adminA", logId, "reason one", "none")
    \/ \E action \in CleanupActions, days \in CleanupDays, preserveCritical \in BOOLEAN :
          CleanupCount("r1", "adminA", action, days, preserveCritical)
    \/ CleanupApply("r1")

SpecCleanup == Init /\ [][NextCleanup]_vars

\* two cleanup requests whose awaits interleave
CleanupRaceSlots == {"r1", "r2"}

NextCleanupRace ==
    \/ Tick
    \/ \E logData \in CleanupInputs : LogAction(logData, TRUE, TRUE)
    \/ \E action \in CleanupActions, days \in CleanupDays, preserveCritical \in BOOLEAN :
          /\ FreeSlots \cap CleanupRaceSlots # {}
          /\ CleanupCount(CHOOSE s \in FreeSlots \cap CleanupRaceSlots : TRUE,
                          "adminA", action, days, preserveCritical)
    \/ \E slot \in CleanupRaceSlots : CleanupApply(slot)

SpecCleanupRace == Init /\ [][NextCleanupRace]_vars

\* -------------------------------------------------------- security events
\* An option that is an array or a single value is written [array |-> <<...>>]
\* or [value |-> v]; an option that may be undefined is a field that may be
\* missing; a date that is not given is NoDate. A result is the sequence of the
\* _id of the documents found.
\* AuditLog.js 365, 366
DefaultPage == 1

DefaultLimit == 50

riskMatches_firstOnly(riskLevel, doc) ==
    IF "array" \in DOMAIN riskLevel
    THEN doc.riskLevel = riskLevel.array[1]
    ELSE doc.riskLevel = riskLevel.value

\* Array.isArray(riskLevel) ? { $in: riskLevel } : riskLevel
riskMatches(riskLevel, doc) ==
    IF "array" \in DOMAIN riskLevel
    THEN includes(riskLevel.array, doc.riskLevel)
    ELSE doc.riskLevel = riskLevel.value

\* the query getSecurityEvents builds from its options
securityQuery(options, doc) ==
    /\ riskMatches(options.riskLevel, doc)
    /\ "flagged" \in DOMAIN options => doc.flagged = options.flagged
    /\ options.startDate # NoDate => doc.timestamp >= options.startDate
    /\ options.endDate # NoDate => doc.timestamp <= options.endDate

\* find(query): the documents the query matches
findSecurityEvents(st, options) == {i \in DOMAIN st : securityQuery(options, st[i])}

\* sort({ timestamp: -1 }): every order of the documents with the timestamps not
\* increasing; the order of documents with one timestamp is not determined
sortByTimestampDesc(st, ids) ==
    {order \in [1..Cardinality(ids) -> ids] :
        /\ \A j, k \in DOMAIN order : j # k => order[j] # order[k]
        /\ \A j, k \in DOMAIN order :
              j < k => st[order[j]].timestamp >= st[order[k]].timestamp}

\* skip((page - 1) * limit).limit(limit)
paginate(order, page, limit) ==
    LET skip == (page - 1) * limit
        last == IF skip + limit < Len(order) THEN skip + limit ELSE Len(order)
    IN  SubSeq(order, skip + 1, last)

\* auditLogSchema.statics.getSecurityEvents: the results it can return
getSecurityEvents(st, options) ==
    {paginate(order, options.page, options.limit) :
        order \in sortByTimestampDesc(st, findSecurityEvents(st, options))}

\* the options the controller passes for req.query: a single riskLevel becomes
\* an array of one, none becomes ['high', 'critical'], flagged is compared with
\* the string 'true'
securityOptions(query) ==
    LET riskLevel == IF "riskLevel" \in DOMAIN query
                     THEN query.riskLevel
                     ELSE [array |-> <<"high", "critical">>]
        base == [riskLevel |-> IF "array" \in DOMAIN riskLevel
                               THEN riskLevel
                               ELSE [array |-> <<riskLevel.value>>],
                 startDate |-> query.startDate,
                 endDate   |-> query.endDate,
                 page      |-> DefaultPage,
                 limit     |-> DefaultLimit]
    IN  IF "flagged" \in DOMAIN query
        THEN Spread(base, [flagged |-> (query.flagged = "true")])
        ELSE base

\* the four countDocuments of the summary: each over the whole collection
securitySummary(st) ==
    [criticalEvents   |-> Cardinality({i \in DOMAIN st : st[i].riskLevel = "critical"}),
     highRiskEvents   |-> Cardinality({i \in DOMAIN st : st[i].riskLevel = "high"}),
     flaggedEvents    |-> Cardinality({i \in DOMAIN st : st[i].flagged = TRUE}),
     unreviewedEvents |-> Cardinality({i \in DOMAIN st :
                              /\ st[i].riskLevel \in {"high", "critical"}
                              /\ st[i].reviewed = FALSE})]

\* exports.getSecurityEvents: the query, the total, req.admin.logActivity and
\* the response
GetSecurityEvents(admin, query) ==
    /\ resp.n < MaxRequests
    /\ \E logs \in getSecurityEvents(store, securityOptions(query)) :
          out' = [op |-> "view_security_events", query |-> query, logs |-> logs,
                  total |-> Cardinality(findSecurityEvents(store, securityOptions(query))),
                  securitySummary |-> securitySummary(store)]
    /\ activityLog' = [activityLog EXCEPT ![admin] =
                          logActivity(@, [action |-> "view_security_events", auditLogId |-> 0])]
    /\ resp' = Response("view_security_events", 200, admin, 0, Absent)
    /\ UNCHANGED <<store, origin, nextId, now, call, classified, reqs>>

\* req.query of the security event requests: both levels with and without the
\* flagged filter and a start date, no riskLevel at all, and a single one
SecurityQueries ==
    {Spread([startDate |-> d, endDate |-> NoDate,
             riskLevel |-> [array |-> <<"high", "critical">>]], f) :
        d \in {NoDate, StartTime + 1},
        f \in {EmptyFn, [flagged |-> "true"], [flagged |-> "false"]}}
    \cup {[startDate |-> NoDate, endDate |-> NoDate],
          [startDate |-> NoDate, endDate |-> StartTime, riskLevel |-> [value |-> "high"]]}

\* what is logged while security events are queried: critical, high and low
QueryInputs ==
    {LogData("hard_delete_user", EmptyFn), LogData("update_user_status", EmptyFn),
     LogData("foo_bar", EmptyFn)}

\* the log grows and is flagged, then it is queried; a query changes no record,
\* so the queries are made on every log that can be reached
NextQuery ==
    \/ /\ out = NoOutput
       /\ \/ Tick
          \/ \E logData \in QueryInputs : LogAction(logData, TRUE, TRUE)
          \/ \E logId \in 1..MaxLogs : FlagAuditLog("adminA", logId, "reason one", "none")
    \/ \E query \in SecurityQueries : GetSecurityEvents("adminA", query)

SpecQuery == Init /\ [][NextQuery]_vars

\* ------------------------------------------------------ compliance report
\* GET /compliance/report (src/unnamed/part_002, 147-208)
complianceScore_noFloor(criticalEvents, flaggedEvents) ==
    100 - (criticalEvents * 5) - (flaggedEvents * 2)

\* Math.max(0, 100 - (criticalEvents * 5) - (flaggedEvents * 2))
complianceScore(criticalEvents, flaggedEvents) ==
    LET score == 100 - (criticalEvents * 5) - (flaggedEvents * 2)
    IN  IF score > 0 THEN score ELSE 0

\* the query of the report: the timestamp bounds that were given
inPeriod(startDate, endDate, doc) ==
    /\ startDate # NoDate => doc.timestamp >= startDate
    /\ endDate # NoDate => doc.timestamp <= endDate

\* the handler: the counts, the report, req.admin.logActivity and the response
ComplianceReport(admin, startDate, endDate) ==
    /\ resp.n < MaxRequests
    /\ LET period == {i \in DOMAIN store : inPeriod(startDate, endDate, store[i])}
           criticalEvents == Cardinality({i \in period : store[i].riskLevel = "critical"})
           sensitiveCount == Cardinality({i \in period : store[i].sensitiveAction = TRUE})
           flaggedEvents == Cardinality({i \in period : store[i].flagged = TRUE})
       IN  out' = [op |-> "generate_compliance_report",
                   startDate |-> startDate, endDate |-> endDate,
                   totalAuditLogs |-> Cardinality(period),
                   criticalSecurityEvents |-> criticalEvents,
                   sensitiveDataAccess |-> sensitiveCount,
                   flaggedActivities |-> flaggedEvents,
                   complianceScore |-> complianceScore(criticalEvents, flaggedEvents)]
    /\ activityLog' = [activityLog EXCEPT ![admin] =
                          logActivity(@, [action |-> "generate_compliance_report",
                                          auditLogId |-> 0])]
    /\ resp' = Response("generate_compliance_report", 200, admin, 0, Absent)
    /\ UNCHANGED <<store, origin, nextId, now, call, classified, reqs>>

\* a record as logAction persists it at time t, and as a flag leaves it
Logged(action, t) == preSave(NewDoc(logActionData(LogData(action, EmptyFn), t), t), t)

Flagged(doc, t) == preSave(flag(doc, "reason one", "adminA", t), t)

\* a log of nc critical records, nf flagged low ones and nb critical flagged
\* ones written at StartTime, after two critical flagged ones written at OldDate
ReportLog(nc, nf, nb) ==
    [i \in 1..(2 + nc + nf + nb) |->
        IF i <= 2 THEN Flagged(Logged("hard_delete_user", OldDate), OldDate)
        ELSE IF i <= 2 + nc THEN Logged("hard_delete_user", StartTime)
        ELSE IF i <= 2 + nc + nf THEN Flagged(Logged("foo_bar", StartTime), StartTime)
        ELSE Flagged(Logged("hard_delete_user", StartTime), StartTime)]

\* how many of each: none, few, and enough to bring the score to 0 and below
CriticalCounts == {0, 1, 3, 19, 20, 21, 25}

FlaggedCounts == {0, 1, 2, 49, 50, 51}

BothCounts == {0, 1}

\* the periods asked for: none, from StartTime on, up to OldDate
ReportPeriods ==
    {[startDate |-> NoDate, endDate |-> NoDate],
     [startDate |-> StartTime, endDate |-> NoDate],
     [startDate |-> NoDate, endDate |-> OldDate]}

InitReport ==
    /\ \E nc \in CriticalCounts, nf \in FlaggedCounts, nb \in BothCounts :
          /\ store = ReportLog(nc, nf, nb)
          /\ nextId = 3 + nc + nf + nb
    /\ origin = [i \in DOMAIN store |->
                    [logData |-> LogData(store[i].action, EmptyFn),
                     at |-> store[i].timestamp,
                     doc |-> [store[i] EXCEPT !.flagged = FALSE, !.flagReason = Absent,
                                              !.reviewedBy = Absent, !.reviewedAt = NoDate]]]
    /\ now = StartTime
    /\ call = NoCall
    /\ activityLog = [a \in Admins |-> <<>>]
    /\ resp = [n |-> 0, op |-> "none", status |-> 0, admin |-> Absent, logId |-> 0,
               arg |-> Absent, at |-> NoDate]
    /\ classified = NotClassified
    /\ reqs = [s \in Slots |-> Idle]
    /\ out = NoOutput

NextReport ==
    \E p \in ReportPeriods : ComplianceReport("adminA", p.startDate, p.endDate)

\* compliance reports over logs with few and with many critical and flagged records
SpecReport == InitReport /\ [][NextReport]_vars

\* --------------------------------------------------------------- CSV export
\* convertToCSV (auditLogController.js 683-694). A text is the sequence of its
\* characters; a record is the sequence of its [key, value] pairs in the order
\* of Object.keys; a value is [string |-> text] for a string and [other |->
\* text] for any other value, the text being what join() makes of it.
RECURSIVE join(_, _)
\* Array.prototype.join: the texts with the separator between them
join(texts, separator) ==
    IF Len(texts) = 0 THEN <<>>
    ELSE IF Len(texts) = 1 THEN texts[1]
    ELSE texts[1] \o separator \o join(Tail(texts), separator)

RECURSIVE doubleQuotes(_)
\* value.replace(/"/g, '""')
doubleQuotes(text) ==
    IF Len(text) = 0 THEN <<>>
    ELSE (IF text[1] = "\"" THEN <<"\"", "\"">> ELSE <<text[1]>>) \o doubleQuotes(Tail(text))

\* typeof value === 'string' ? `"${value.replace(/"/g, '""')}"` : value
csvCell(value) ==
    IF "string" \in DOMAIN value
    THEN <<"\"">> \o doubleQuotes(value.string) \o <<"\"">>
    ELSE value.other

convertToCSV(logs) ==
    IF Len(logs) = 0 THEN <<>>
    ELSE LET headers == join([k \in DOMAIN logs[1] |-> logs[1][k].key], <<",">>)
             rows == [n \in DOMAIN logs |->
                         join([k \in DOMAIN logs[n] |-> csvCell(logs[n][k].value)], <<",">>)]
         IN  join(<<headers>> \o rows, <<"\n">>)

\* records as find().lean() returns them: plain string values, a number, a
\* string with a quote in it, review notes of two lines, and a record that
\* lacks a key of the others
CsvRecords ==
    {<<[key |-> <<"a">>, value |-> [string |-> <<"x">>]],
       [key |-> <<"n">>, value |-> [other |-> <<"1">>]]>>,
     <<[key |-> <<"a">>, value |-> [string |-> <<"x", "\"", "y">>]],
       [key |-> <<"n">>, value |-> [other |-> <<"2">>]]>>,
     <<[key |-> <<"a">>, value |-> [string |-> <<"x">>]],
       [key |-> <<"r">>, value |-> [string |-> <<"l", "\n", "m">>]]>>,
     <<[key |-> <<"a">>, value |-> [string |-> <<>>]]>>}

RECURSIVE Lists(_, _)
\* the sequences of at most n elements of a set
Lists(set, n) ==
    IF n = 0 THEN {<<>>}
    ELSE LET shorter == Lists(set, n - 1)
         IN  shorter \cup {Append(l, e) : l \in {x \in shorter : Len(x) = n - 1}, e \in set}

NotConverted == [op |-> "none", logs |-> <<>>, csv |-> <<>>, done |-> FALSE]

InitCSV ==
    /\ store = EmptyFn
    /\ origin = EmptyFn
    /\ nextId = 1
    /\ now = StartTime
    /\ call = NoCall
    /\ activityLog = [a \in Admins |-> <<>>]
    /\ resp = [n |-> 0, op |-> "none", status |-> 0, admin |-> Absent, logId |-> 0,
               arg |-> Absent, at |-> NoDate]
    /\ classified = NotClassified
    /\ reqs = [s \in Slots |-> Idle]
    /\ out \in {[NotConverted EXCEPT !.logs = logs] : logs \in Lists(CsvRecords, MaxRows)}

\* convertToCSV(logs) evaluated
ConvertToCSV ==
    /\ out.op = "none" /\ ~out.done
    /\ out' = [out EXCEPT !.op = "convertToCSV", !.done = TRUE, !.csv = convertToCSV(out.logs)]
    /\ UNCHANGED <<store, origin, nextId, now, call, activityLog, resp, classified, reqs>>

NextCSV == ConvertToCSV

\* convertToCSV applied to every list of at most MaxRows records
SpecCSV == InitCSV /\ [][NextCSV]_vars

\* ------------------------------------------------- unit leader activity
\* unitLeaderSchema.methods.logActivity (UnitLeader.js 393-417), the caller of
\* AuditLog.logAction: the record it hands over.  leader is this._id; the
\* paths that are no paths of auditLogSchema (actorEmail aside) are left out
unitLeaderLogData(leader, action, details) ==
    [action         |-> action,
     actionCategory |-> "unit_leader_management",
     actorId        |-> leader,
     actorType      |-> "unit_leader",
     targetId       |-> Get(details, "targetId", leader),
     targetType     |-> Get(details, "targetType", "unit_leader"),
     success        |-> Get(details, "success", TRUE) # FALSE]

\* the method: it awaits logAction and swallows what it throws
UnitLeaderLogActivity(leader, action, details) ==
    LogAction(unitLeaderLogData(leader, action, details), TRUE, TRUE)

\* the actions a unit leader logs and the details given with them
LeaderActions == {"login", "update_profile", "add_member", "hard_delete_user"}

LeaderDetails ==
    {EmptyFn, [success |-> FALSE], [targetId |-> "user1", targetType |-> "user"]}

Leaders == {"leaderA", "leaderB"}

\* the log is written by admins' callers and by unit leaders, the store healthy
NextLeader ==
    \/ \E logData \in WriteInputs : LogAction(logData, TRUE, TRUE)
    \/ \E leader \in Leaders, action \in LeaderActions, details \in LeaderDetails :
          UnitLeaderLogActivity(leader, action, details)

SpecLeader == Init /\ [][NextLeader]_vars

\* ------------------------------------------------------------ recent alerts
\* GET /alerts/recent (src/unnamed/part_002, 219-268).  The clock of the model
\* counts days, the request counts hours: times are compared in hours
HoursPerDay == 24
DefaultHours == 24
DefaultAlertLimit == 50

Digits == <<"0", "1", "2", "3", "4", "5", "6", "7", "8", "9">>

digitValue(c) == (CHOOSE d \in 1..10 : Digits[d] = c) - 1

RECURSIVE parseDigits(_, _)
\* the digits at the head of the text, read in base ten
parseDigits(text, acc) ==
    IF text = <<>> \/ ~includes(Digits, Head(text)) THEN acc
    ELSE parseDigits(Tail(text), acc * 10 + digitValue(Head(text)))

\* parseInt of a query string that starts with a numeral: an optional minus
\* sign, then the digits up to the first character that is not one
parseInt(text) ==
    IF text # <<>> /\ Head(text) = "-" THEN 0 - parseDigits(Tail(text), 0)
    ELSE parseDigits(text, 0)

\* the filter of the find: timestamp $gte since, and the $or of the three
alertQuery(sinceHours, doc) ==
    /\ doc.timestamp * HoursPerDay >= sinceHours
    /\ \/ doc.riskLevel = "critical"
       \/ doc.flagged = TRUE
       \/ doc.sensitiveAction = TRUE /\ doc.success = FALSE

\* .limit(n) of a find: 0 is no limit, a negative n is its absolute value
cursorLimit(order, n) ==
    LET count == IF n = 0 THEN Len(order) ELSE IF n < 0 THEN 0 - n ELSE n
    IN  SubSeq(order, 1, IF count < Len(order) THEN count ELSE Len(order))

\* the handler: since, the find with sort and limit, the summary,
\* req.admin.logActivity and the response; hours and limit are the strings of
\* req.query, or absent
AlertsRecent(admin, query) ==
    /\ resp.n < MaxRequests
    /\ LET hours == IF "hours" \in DOMAIN query THEN parseInt(query.hours) ELSE DefaultHours
           limit == IF "limit" \in DOMAIN query THEN parseInt(query.limit)
                    ELSE DefaultAlertLimit
           since == now * HoursPerDay - hours
           found == {i \in DOMAIN store : alertQuery(since, store[i])}
       IN  \E order \in sortByTimestampDesc(store, found) :
              LET alerts == cursorLimit(order, limit)
              IN  out' = [op |-> "view_security_alerts", query |-> query,
                          alerts |-> alerts, totalAlerts |-> Len(alerts)]
    /\ activityLog' = [activityLog EXCEPT ![admin] =
                          logActivity(@, [action |-> "view_security_alerts",
                                          auditLogId |-> 0])]
    /\ resp' = Response("view_security_alerts", 200, admin, 0, Absent)
    /\ UNCHANGED <<store, origin, nextId, now, call, classified, reqs>>

\* req.query of the alert requests: the defaults, a window of no hours, of half
\* a day and of two days, and limits of none, one and two
AlertQueries ==
    {Spread(h, l) :
        h \in {EmptyFn, [hours |-> <<"0">>], [hours |-> <<"1", "2">>],
               [hours |-> <<"4", "8">>]},
        l \in {EmptyFn, [limit |-> <<"0">>], [limit |-> <<"1">>], [limit |-> <<"2">>]}}

\* what is logged before alerts are asked for: a critical action, a sensitive
\* one that failed, the same one succeeding, and one that is neither
AlertInputs ==
    {LogData("hard_delete_user", EmptyFn),
     LogData("view_user_details", [success |-> FALSE]),
     LogData("view_user_details", EmptyFn),
     LogData("foo_bar", EmptyFn)}

\* the log grows and is flagged, then the alerts are asked for
NextAlerts ==
    \/ /\ out = NoOutput
       /\ \/ Tick
          \/ \E logData \in AlertInputs : LogAction(logData, TRUE, TRUE)
          \/ \E logId \in 1..MaxLogs : FlagAuditLog("adminA", logId, "reason one", "none")
    \/ \E query \in AlertQueries : AlertsRecent("adminA", query)

SpecAlerts == Init /\ [][NextAlerts]_vars

\* ------------------------------------------------------------ list of logs
\* getAuditLogs (auditLogController.js 8-105).  req.query is a record of the
\* parameters that were given: the dates as days, the numbers and the action
\* filter as texts, the rest as strings
DefaultListLimit == 50

Lower == <<"a", "b", "c", "d", "e", "f", "g", "h", "i", "j", "k", "l", "m",
           "n", "o", "p", "q", "r", "s", "t", "u", "v", "w", "x", "y", "z">>

Upper == <<"A", "B", "C", "D", "E", "F", "G", "H", "I", "J", "K", "L", "M",
           "N", "O", "P", "Q", "R", "S", "T", "U", "V", "W", "X", "Y", "Z">>

\* the letter without its case
lower(c) == IF includes(Upper, c) THEN Lower[CHOOSE k \in 1..26 : Upper[k] = c] ELSE c

\* the characters of the action names that are listed
Spell ==
    [hard_delete_user  |-> <<"h", "a", "r", "d", "_", "d", "e", "l", "e", "t", "e", "_",
                            "u", "s", "e", "r">>,
     view_user_details |-> <<"v", "i", "e", "w", "_", "u", "s", "e", "r", "_",
                            "d", "e", "t", "a", "i", "l", "s">>,
     foo_bar           |-> <<"f", "o", "o", "_", "b", "a", "r">>]

\* { $regex: pattern, $options: 'i' } for a pattern of letters, digits,
\* underscores and dots: the pattern matches somewhere in the text, a dot
\* matching any character
regexTest(pattern, text) ==
    \E pos \in 1..(Len(text) + 1) :
        \A k \in 1..Len(pattern) :
            /\ pos + k - 1 <= Len(text)
            /\ \/ pattern[k] = "."
               \/ lower(pattern[k]) = lower(text[pos + k - 1])

\* if (value): the parameter was given and is not the empty string
given(query, key) ==
    key \in DOMAIN query /\ query[key] # (IF key = "action" THEN <<>> ELSE "")

\* the query the handler builds, applied to a document
listMatches(query, doc) ==
    /\ "startDate" \in DOMAIN query => doc.timestamp >= query.startDate
    /\ "endDate" \in DOMAIN query => doc.timestamp <= query.endDate
    /\ given(query, "actorId") => doc.actorId = query.actorId
    /\ given(query, "targetId") => doc.targetId = query.targetId
    /\ given(query, "action") => regexTest(query.action, Spell[doc.action])
    /\ given(query, "actionCategory") => doc.actionCategory = query.actionCategory
    /\ "riskLevel" \in DOMAIN query => riskMatches(query.riskLevel, doc)
    /\ "success" \in DOMAIN query => doc.success = (query.success = "true")
    /\ "flagged" \in DOMAIN query => doc.flagged = (query.flagged = "true")
    /\ "reviewed" \in DOMAIN query => doc.reviewed = (query.reviewed = "true")
    /\ "sensitiveAction" \in DOMAIN query =>
           doc.sensitiveAction = (query.sensitiveAction = "true")
    /\ given(query, "actorIP") => doc.actorIP = query.actorIP

\* sort({ timestamp: 1 })
sortByTimestampAsc(st, ids) ==
    {order \in [1..Cardinality(ids) -> ids] :
        /\ \A j, k \in DOMAIN order : j # k => order[j] # order[k]
        /\ \A j, k \in DOMAIN order :
              j < k => st[order[j]].timestamp <= st[order[k]].timestamp}

\* .skip(n) of a find
cursorSkip(order, n) == SubSeq(order, n + 1, Len(order))

\* the handler: the query, find with sort, skip and limit, countDocuments,
\* req.admin.logActivity and the response.  No statement of it looks at the
\* values of the filters before they go into the query
GetAuditLogs(admin, query) ==
    /\ resp.n < MaxRequests
    /\ LET page == IF "page" \in DOMAIN query THEN parseInt(query.page) ELSE DefaultPage
           limit == IF "limit" \in DOMAIN query THEN parseInt(query.limit)
                    ELSE DefaultListLimit
           sortOrder == Get(query, "sortOrder", "desc")
           found == {i \in DOMAIN store : listMatches(query, store[i])}
           orders == IF sortOrder = "desc" THEN sortByTimestampDesc(store, found)
                     ELSE sortByTimestampAsc(store, found)
       IN  \E order \in orders :
              out' = [op |-> "view_audit_logs", query |-> query,
                      logs |-> cursorLimit(cursorSkip(order, (page - 1) * limit), limit),
                      total |-> Cardinality(found)]
    /\ activityLog' = [activityLog EXCEPT ![admin] =
                          logActivity(@, [action |-> "view_audit_logs", auditLogId |-> 0])]
    /\ resp' = Response("view_audit_logs", 200, admin, 0, Absent)
    /\ UNCHANGED <<store, origin, nextId, now, call, classified, reqs>>

\* requests with one filter each
SingleFilters ==
    {[startDate |-> StartTime + 1], [endDate |-> StartTime],
     [actorId |-> "adminA"], [actorId |-> "adminB"],
     [targetId |-> "user1"],
     [action |-> <<"U", "S", "E", "R">>], [action |-> <<"e", ".", "u">>],
     [actionCategory |-> "security"], [actionCategory |-> "bogus"],
     [riskLevel |-> [value |-> "critical"]], [riskLevel |-> [value |-> "severe"]],
     [riskLevel |-> [array |-> <<"low", "critical">>]],
     [success |-> "false"], [flagged |-> "true"], [reviewed |-> "false"],
     [sensitiveAction |-> "true"], [actorIP |-> "10.0.0.1"]}

\* req.query of the list requests: no filter, one filter, two or three filters,
\* a sort order, a page of one record
ListQueries ==
    {EmptyFn} \cup SingleFilters
    \cup {[actorId |-> "adminA", flagged |-> "true"],
          [actionCategory |-> "user_management", flagged |-> "false",
           startDate |-> StartTime],
          [sortOrder |-> "asc"], [sortOrder |-> "desc", success |-> "true"],
          [page |-> <<"2">>, limit |-> <<"1">>]}

\* what is logged before the list is asked for
ListInputs ==
    {LogData("hard_delete_user", [actorId |-> "adminB", actorIP |-> "10.0.0.1"]),
     LogData("view_user_details",
             [success |-> FALSE, targetId |-> "user1", actionCategory |-> "security"]),
     LogData("foo_bar", EmptyFn)}

\* the log grows, is flagged and reviewed, then it is listed
NextList ==
    \/ /\ out = NoOutput
       /\ \/ Tick
          \/ \E logData \in ListInputs : LogAction(logData, TRUE, TRUE)
          \/ \E logId \in 1..MaxLogs : FlagAuditLog("adminA", logId, "reason one", "none")
          \/ \E logId \in 1..MaxLogs : ReviewAuditLog("adminB", logId, "notes", "none")
    \/ \E query \in ListQueries : GetAuditLogs("adminA", query)

SpecList == Init /\ [][NextList]_vars

\* ------------------------------------------------ the other read handlers
\* the action each remaining read handler passes to req.admin.logActivity:
\* getAuditLogs, getAuditLogById, getActorAuditLogs, getTargetAuditLogs,
\* getAuditLogStats, exportAuditLogs and the recent alerts route
ViewActions ==
    {"view_audit_logs", "view_audit_log_details", "view_actor_audit_logs",
     "view_target_audit_logs", "view_audit_stats", "export_audit_logs",
     "view_security_alerts"}

\* one of these handlers, by what it does to the state: its calls on the
\* collection are find, findById, countDocuments and aggregate, which write
\* nothing; then req.admin.logActivity and the response.  The data it sends is
\* not kept
ViewAuditLogs(admin, action) ==
    /\ resp.n < MaxRequests
    /\ out' = [op |-> action]
    /\ activityLog' = [activityLog EXCEPT ![admin] =
                          logActivity(@, [action |-> action, auditLogId |-> 0])]
    /\ resp' = Response(action, 200, admin, 0, Absent)
    /\ UNCHANGED <<store, origin, nextId, now, call, classified, reqs>>

\* ---------------------------------------------------------------- routes
\* the audit routes (src/unnamed/part_002) and their middleware
\* (src/unnamed/part_000).  A request is a record in out: its route, the Admin
\* document of its caller, the place in the chain of the function that runs
\* next (0 when none is scheduled), the functions that ran, and the status of
\* the response (0 while none was sent)
requireSuperAdmin == <<"super_admin">>

requireAdminOrAbove == <<"admin", "super_admin">>

requireAnyAdmin == <<"moderator", "admin", "super_admin">>

RequireRole(allowedRoles) == [mw |-> "requireRole", allowedRoles |-> allowedRoles]

Mw(name) == [mw |-> name]

\* router.get and router.post: the functions of each route as they are
\* mounted.  rateLimitSensitiveOps is mounted as it is exported, the factory
\* itself and not the middleware a call of it returns
Routes ==
    [logs           |-> <<Mw("authenticateToken"), RequireRole(requireAnyAdmin),
                          Mw("auditLog"), Mw("handler")>>,
     logById        |-> <<Mw("authenticateToken"), RequireRole(requireAnyAdmin),
                          Mw("auditLog"), Mw("handler")>>,
     actor          |-> <<Mw("authenticateToken"), RequireRole(requireAnyAdmin),
                          Mw("auditLog"), Mw("handler")>>,
     target         |-> <<Mw("authenticateToken"), RequireRole(requireAnyAdmin),
                          Mw("auditLog"), Mw("handler")>>,
     securityEvents |-> <<Mw("authenticateToken"), RequireRole(requireAnyAdmin),
                          Mw("auditLog"), Mw("handler")>>,
     flag           |-> <<Mw("authenticateToken"), RequireRole(requireAnyAdmin),
                          Mw("rateLimitSensitiveOps"), Mw("auditLog"), Mw("handler")>>,
     review         |-> <<Mw("authenticateToken"), RequireRole(requireAnyAdmin),
                          Mw("rateLimitSensitiveOps"), Mw("auditLog"), Mw("handler")>>,
     stats          |-> <<Mw("authenticateToken"), RequireRole(requireAnyAdmin),
                          Mw("auditLog"), Mw("handler")>>,
     export         |-> <<Mw("authenticateToken"), RequireRole(requireSuperAdmin),
                          Mw("rateLimitSensitiveOps"), Mw("auditLog"), Mw("handler")>>,
     compliance     |-> <<Mw("authenticateToken"), RequireRole(requireSuperAdmin),
                          Mw("auditLog"), Mw("handler")>>,
     alerts         |-> <<Mw("authenticateToken"), RequireRole(requireAnyAdmin),
                          Mw("auditLog"), Mw("handler")>>,
     cleanup        |-> <<Mw("authenticateToken"), RequireRole(requireSuperAdmin),
                          Mw("rateLimitSensitiveOps"), Mw("auditLog"), Mw("handler")>>]

\* what a middleware function did: it called next, or it sent a response, or
\* it returned having done neither
CallsNext == [next |-> TRUE, status |-> 0]

Sends(status) == [next |-> FALSE, status |-> status]

Returns == [next |-> FALSE, status |-> 0]

\* ../middleware/auth: a caller with a valid token goes on, with req.admin set
authenticateToken(caller) == IF caller.authenticated THEN CallsNext ELSE Sends(401)

\* the middleware requireRole(allowedRoles) returns
requireRole(allowedRoles, caller) ==
    IF ~caller.authenticated THEN Sends(401)
    ELSE IF ~caller.found THEN Sends(404)
    ELSE IF caller.status # "active" THEN Sends(403)
    ELSE IF ~includes(allowedRoles, caller.role) THEN Sends(403)
    ELSE CallsNext

\* rateLimitSensitiveOps called with (req, res, next): it makes a Map and
\* returns the limiter; it calls neither next nor res
rateLimitSensitiveOps == Returns

\* the middleware auditLog(operation) returns: it wraps res.json and goes on
auditLog == CallsNext

\* the function of the chain applied to the request
runMiddleware(fn, caller) ==
    IF fn.mw = "authenticateToken" THEN authenticateToken(caller)
    ELSE IF fn.mw = "requireRole" THEN requireRole(fn.allowedRoles, caller)
    ELSE IF fn.mw = "rateLimitSensitiveOps" THEN rateLimitSensitiveOps
    ELSE IF fn.mw = "auditLog" THEN auditLog
    ELSE Sends(200)

\* a request arrives at a route, when no request is on its way
Arrive(route, caller) ==
    /\ out.op = "route" => (out.status # 0 \/ out.at = 0)
    /\ out' = [op |-> "route", route |-> route, caller |-> caller, at |-> 1,
               ran |-> <<>>, status |-> 0]
    /\ UNCHANGED <<store, origin, nextId, now, call, activityLog, resp, classified, reqs>>

\* express runs the function that is scheduled
RunMiddleware ==
    /\ out.op = "route" /\ out.status = 0 /\ out.at # 0
    /\ LET fn == Routes[out.route][out.at]
           did == runMiddleware(fn, out.caller)
       IN  out' = [out EXCEPT !.at = IF did.next THEN out.at + 1 ELSE 0,
                              !.ran = Append(out.ran, fn.mw),
                              !.status = did.status]
    /\ UNCHANGED <<store, origin, nextId, now, call, activityLog, resp, classified, reqs>>

\* adminSchema: role
AdminRoles == {"super_admin", "admin", "moderator"}

\* the callers: without a token, with a token of an admin that is gone, and
\* admins of every role, active or not
Callers ==
    {[authenticated |-> FALSE, found |-> FALSE, role |-> "moderator", status |-> "active"],
     [authenticated |-> TRUE, found |-> FALSE, role |-> "moderator", status |-> "active"]}
    \cup {[authenticated |-> TRUE, found |-> TRUE, role |-> r, status |-> st] :
              r \in AdminRoles, st \in {"active", "suspended"}}

NextRoutes ==
    \/ \E route \in DOMAIN Routes, caller \in Callers : Arrive(route, caller)
    \/ RunMiddleware

SpecRoutes == Init /\ [][NextRoutes]_vars

\* ------------------------------------------------ every kind of operation
\* records are logged, flagged, reviewed, read by every read handler and
\* cleaned up, in any order and at one reading of the clock; the
\* cleanups are asked with olderThanDays = -1, which the handler accepts and
\* which puts the cutoff a day ahead, so that they select what was just logged
NextLifecycle ==
    \/ LogAction(LogData("hard_delete_user", EmptyFn), TRUE, TRUE)
    \/ \E logId \in 1..MaxLogs, reason \in {"reason one", ""} :
          FlagAuditLog("adminA", logId, reason, "none")
    \/ \E logId \in 1..MaxLogs : ReviewAuditLog("adminA", logId, "notes", "none")
    \/ GetSecurityEvents("adminA", [startDate |-> NoDate, endDate |-> NoDate])
    \/ ComplianceReport("adminA", NoDate, NoDate)
    \/ \E action \in ViewActions : ViewAuditLogs("adminA", action)
    \/ \E action \in {"archive", "delete"} : CleanupCount("r1", "adminA", action, -1, FALSE)
    \/ CleanupApply("r1")

SpecLifecycle == Init /\ [][NextLifecycle]_vars

\* ------------------------------------------------- the classifier alone
\* every action name of the four tables, and names that are in none of them
ActionNames ==
    Range(criticalActions) \cup Range(highRiskActions) \cup Range(mediumRiskActions)
    \cup Range(sensitiveActions)
    \cup {"foo_bar", "soft_delete_user", "HARD_DELETE_USER", ""}

\* every category of the schema, one that is not, and none
CategoryNames == actionCategoryEnum \cup {"unit_leader_management", Absent}

InitClassify ==
    /\ store = EmptyFn
    /\ origin = EmptyFn
    /\ nextId = 1
    /\ now = StartTime
    /\ call = NoCall
    /\ activityLog = [a \in Admins |-> <<>>]
    /\ resp = [n |-> 0, op |-> "none", status |-> 0, admin |-> Absent, logId |-> 0,
               arg |-> Absent, at |-> NoDate]
    /\ classified \in {[NotClassified EXCEPT !.action = a, !.category = c] :
                          a \in ActionNames, c \in CategoryNames}
    /\ reqs = [s \in Slots |-> Idle]
    /\ out = NoOutput

\* determineRiskLevel(action, category) and isSensitiveAction(action) evaluated
Classify ==
    /\ ~classified.done
    /\ classified' = [classified EXCEPT
                         !.done = TRUE,
                         !.riskLevel = determineRiskLevel(classified.action, classified.category),
                         !.sensitive = isSensitiveAction(classified.action)]
    /\ UNCHANGED <<store, origin, nextId, now, call, activityLog, resp, reqs, out>>

NextClassify == Classify

\* the classifier applied to every action name and category
SpecClassify == InitClassify /\ [][NextClassify]_vars

\* ------------------------------------------------------------------ claims
Made == call.at # NoDate            \* a logAction call has been made

Count(seq, x) == Cardinality({k \in DOMAIN seq : seq[k] = x})

\* the record's riskLevel is high or critical or its sensitiveAction is true
AlertDue(doc) == doc.riskLevel \in {"high", "critical"} \/ doc.sensitiveAction = TRUE

\* C1: every record persisted by logAction has the retentionCategory that
\* (riskLevel, sensitiveAction) determine: permanent when critical, otherwise
\* extended when high or sensitive, otherwise standard; so hard_delete_user is
\* stored permanent and view_system_settings extended.
C1_RetentionFollowsRisk ==
    \A i \in DOMAIN store :
        store[i].retentionCategory =
            IF store[i].riskLevel = "critical" THEN "permanent"
            ELSE IF store[i].riskLevel = "high" \/ store[i].sensitiveAction THEN "extended"
            ELSE "standard"

\* C2: in a logAction call the dispatcher is invoked exactly once, with the
\* persisted record, after the save and before the return, if and only if the
\* save succeeded and the record is high, critical or sensitive; otherwise it is
\* not invoked at all.
C2_AlertExactlyWhenDue ==
    Made =>
        IF call.saved /\ AlertDue(store[call.id])
        THEN /\ Count(call.events, "alert") = 1
             /\ call.alertArg = call.id
             /\ \E j, k, m \in DOMAIN call.events :
                    /\ j < k /\ k < m
                    /\ call.events[j] = "save"
                    /\ call.events[k] = "alert"
                    /\ call.events[m] = "return"
        ELSE Count(call.events, "alert") = 0

\* a view_system_settings call (medium, sensitive) was saved and alerted once
C2_Witness ==
    /\ Made /\ call.saved
    /\ call.logData.action = "view_system_settings"
    /\ store[call.id].riskLevel = "medium"
    /\ Count(call.events, "alert") = 1

\* C3: when the dispatcher fails for a record logAction has just persisted,
\* logAction still returns the persisted record and not null, the record stays in
\* the store as it was written, and the write was made once.
C3_AlertFailureDoesNotBreakWrite ==
    (Made /\ call.alertThrew) =>
        /\ call.ret = call.id
        /\ call.id \in DOMAIN store
        /\ DOMAIN store = call.idsBefore \cup {call.id}
        /\ Count(call.events, "save") = 1

\* C4: when persistence fails, logAction returns null and does not raise, no
\* record is added to the store and the dispatcher is not invoked.
C4_SaveFailureReturnsNull ==
    (Made /\ ~call.saved) =>
        /\ call.ret = 0
        /\ ~call.raised
        /\ call.events[Len(call.events)] = "return"
        /\ DOMAIN store = call.idsBefore
        /\ Count(call.events, "alert") = 0

\* the store rejected the write of a valid critical record
C4_Witness ==
    /\ Made /\ ~call.saved
    /\ call.logData.action = "hard_delete_user"
    /\ "retentionCategory" \notin DOMAIN call.logData

\* the four fields a caller must not set
DerivedPaths == {"riskLevel", "sensitiveAction", "retentionCategory", "timestamp"}

WithoutDerived(logData) == [k \in DOMAIN logData \ DerivedPaths |-> logData[k]]

\* C5: what the caller passes for riskLevel, sensitiveAction, retentionCategory
\* or timestamp has no influence: two calls that differ only in those fields
\* persist the same riskLevel, sensitiveAction and retentionCategory, and the
\* timestamp is the time of the call.
C5_CallerDerivedFieldsIgnored ==
    /\ \A i \in DOMAIN store : store[i].timestamp = origin[i].at
    /\ \A i, j \in DOMAIN store :
          WithoutDerived(origin[i].logData) = WithoutDerived(origin[j].logData) =>
              /\ store[i].riskLevel = store[j].riskLevel
              /\ store[i].sensitiveAction = store[j].sensitiveAction
              /\ store[i].retentionCategory = store[j].retentionCategory

\* C6: determineRiskLevel is critical on criticalActions, high on highRiskActions
\* outside them, medium on mediumRiskActions outside both, low on every other
\* name, and the same for every category.
C6_ClassifierByMembership ==
    classified.done =>
        LET a == classified.action
        IN  /\ classified.riskLevel =
                  IF a \in Range(criticalActions) THEN "critical"
                  ELSE IF a \in Range(highRiskActions) THEN "high"
                  ELSE IF a \in Range(mediumRiskActions) THEN "medium"
                  ELSE "low"
            /\ \A c \in CategoryNames : determineRiskLevel(a, c) = classified.riskLevel

\* a name in no table, with a category the schema does not know, is low
C6_Witness ==
    /\ classified.done
    /\ classified.action = "soft_delete_user"
    /\ classified.category = "unit_leader_management"
    /\ classified.riskLevel = "low"

\* C7: the stored sensitiveAction is true exactly when the action name is in
\* sensitiveActions, whatever the risk level and whatever the caller passed.
C7_SensitiveByMembership ==
    \A i \in DOMAIN store :
        store[i].sensitiveAction = (origin[i].logData.action \in Range(sensitiveActions))

\* a low sensitive record, a medium sensitive one and a critical one that is not
C7_Witness ==
    \E i, j \in DOMAIN store :
        /\ store[i].action = "view_user_details"
        /\ store[i].riskLevel = "low" /\ store[i].sensitiveAction
        /\ store[j].action = "hard_delete_user"
        /\ store[j].riskLevel = "critical" /\ ~store[j].sensitiveAction

\* the fields that are written once
WriteOnce(doc) ==
    [action |-> doc.action, actionCategory |-> doc.actionCategory,
     description |-> doc.description, actorType |-> doc.actorType,
     actorId |-> doc.actorId, targetId |-> doc.targetId,
     riskLevel |-> doc.riskLevel, sensitiveAction |-> doc.sensitiveAction,
     retentionCategory |-> doc.retentionCategory, timestamp |-> doc.timestamp]

\* C8: after any sequence of flag and review calls a record's action, actor,
\* target, riskLevel, sensitiveAction, retentionCategory and timestamp are what
\* was persisted when it was created.
C8_WriteOnceFieldsKept ==
    \A i \in DOMAIN store : WriteOnce(store[i]) = WriteOnce(origin[i].doc)

\* a record flagged and reviewed after the time it was created at
C8_Witness ==
    \E i \in DOMAIN store :
        /\ store[i].flagged /\ store[i].reviewed
        /\ store[i].reviewedAt > store[i].timestamp
        /\ resp.n >= 2

\* C9: a successful flag or review call is itself audit-logged through logAction:
\* the store holds an Event Record describing that call.
C9_MutatingCallsAudited ==
    resp.status = 200 =>
        \E i \in DOMAIN store :
            /\ store[i].action = resp.op
            /\ store[i].actorId = resp.admin

\* C10: a flag call leaves flagged true, flagReason the given reason, reviewedBy
\* the caller and reviewedAt the time of the call, also on a record flagged
\* before.
C10_FlagOverwrites ==
    (resp.op = "flag_audit_log" /\ resp.status = 200) =>
        /\ store[resp.logId].flagged
        /\ store[resp.logId].flagReason = resp.arg
        /\ store[resp.logId].reviewedBy = resp.admin
        /\ store[resp.logId].reviewedAt = resp.at

\* adminB flagged, later, a record that adminA had flagged with another reason
C10_Witness ==
    /\ resp.op = "flag_audit_log" /\ resp.status = 200
    /\ resp.admin = "adminB" /\ resp.arg = "reason two"
    /\ resp.at > store[resp.logId].timestamp
    /\ \E k \in DOMAIN activityLog["adminA"] :
          /\ activityLog["adminA"][k].action = "flag_audit_log"
          /\ activityLog["adminA"][k].auditLogId = resp.logId

\* a request has just been answered
Answered == resp'.n # resp.n

\* C11: a review call answered 200 leaves reviewed true, reviewNotes the given
\* notes, reviewedBy the caller and reviewedAt the time of the call, on a record
\* that was flagged before as on one that was not, and leaves flagged and
\* flagReason as they were; a flag call answered 200 leaves reviewed and
\* reviewNotes as they were; a review call is answered 404 only for a record that
\* does not exist.
C11_ReviewIndependentOfFlag ==
    [][Answered =>
          LET id == resp'.logId
          IN  /\ (resp'.op = "review_audit_log" /\ resp'.status = 200) =>
                    /\ store'[id].reviewed
                    /\ store'[id].reviewNotes = resp'.arg
                    /\ store'[id].reviewedBy = resp'.admin
                    /\ store'[id].reviewedAt = resp'.at
                    /\ store'[id].flagged = store[id].flagged
                    /\ store'[id].flagReason = store[id].flagReason
              /\ (resp'.op = "flag_audit_log" /\ resp'.status = 200) =>
                    /\ store'[id].reviewed = store[id].reviewed
                    /\ store'[id].reviewNotes = store[id].reviewNotes
              /\ (resp'.op = "review_audit_log" /\ resp'.status = 404) =>
                    id \notin DOMAIN store]_vars

\* a review answered 200 on a record that adminA had flagged: the record is
\* reviewed and still carries the flag and its reason
C11_Witness ==
    /\ resp.op = "review_audit_log" /\ resp.status = 200
    /\ store[resp.logId].reviewed
    /\ store[resp.logId].flagged /\ store[resp.logId].flagReason = "reason one"

\* C12: a flag request whose reason is missing or empty is answered 400, also
\* for a record that does not exist and when the store cannot be read (the reason
\* is checked before the record is loaded), and changes no record.
C12_FlagWithoutReasonRejected ==
    [][(Answered /\ resp'.op = "flag_audit_log" /\ resp'.arg \in {Absent, ""}) =>
          /\ resp'.status = 400
          /\ store' = store]_vars

\* a flag request without a reason for a record that exists was answered 400
C12_Witness ==
    /\ resp.op = "flag_audit_log" /\ resp.status = 400
    /\ resp.arg \in {Absent, ""}
    /\ resp.logId \in DOMAIN store

\* the requests answered 200 for record id, and those of them that flagged or
\* reviewed it
Wrote(id) ==
    {s \in Slots : reqs[s].pc = "done" /\ reqs[s].status = 200 /\ reqs[s].logId = id}

WroteOp(id, op) == {s \in Wrote(id) : reqs[s].op = op}

\* C13: when flag and review calls on one record interleave between their read
\* and their save, then once they have completed every review-workflow field
\* holds a value one of the calls wrote (flagReason a reason of a flag call,
\* reviewNotes the notes of a review call, reviewedBy and reviewedAt the caller
\* and the time of one of the calls), the record is flagged if a call flagged
\* it and reviewed if a call reviewed it, and no write-once field has changed.
C13_RaceIsLastWriteWins ==
    (\A s \in Slots : reqs[s].pc \in {"idle", "done"}) =>
        \A id \in DOMAIN store :
            LET F == WroteOp(id, "flag_audit_log")
                R == WroteOp(id, "review_audit_log")
                d == store[id]
            IN  /\ WriteOnce(d) = WriteOnce(origin[id].doc)
                /\ d.flagged = (F # {})
                /\ d.flagReason \in IF F = {} THEN {Absent} ELSE {reqs[s].arg : s \in F}
                /\ d.reviewed = (R # {})
                /\ d.reviewNotes \in IF R = {} THEN {Absent} ELSE {reqs[s].arg : s \in R}
                /\ d.reviewedBy \in
                       IF F \cup R = {} THEN {Absent} ELSE {reqs[s].admin : s \in F \cup R}
                /\ d.reviewedAt \in
                       IF F \cup R = {} THEN {NoDate} ELSE {reqs[s].at : s \in F \cup R}

\* a flag and a review of record 1 both loaded it before either saved; both were
\* answered 200
C13_Witness ==
    /\ \A s \in Slots : reqs[s].pc \in {"idle", "done"}
    /\ \E f \in WroteOp(1, "flag_audit_log"), r \in WroteOp(1, "review_audit_log") :
          /\ reqs[f].raced \/ reqs[r].raced
          /\ reqs[f].loaded.reviewed = FALSE
          /\ reqs[r].loaded.flagged = FALSE

\* a cleanup request has just run its deleteMany or updateMany and was answered
Cleaned(s) == reqs[s].pc = "counted" /\ reqs'[s].pc = "done" /\ reqs'[s].status = 200

\* C14: a cleanup with action delete and preserveCritical true removes every
\* record whose timestamp is before the cutoff and whose riskLevel is not
\* critical, leaves every other record in the store as it was, and answers with
\* a count equal to the number of records it removed.
C14_DeletePreservesCritical ==
    [][\A s \in Slots :
          (Cleaned(s) /\ reqs[s].params.action = "delete"
                      /\ reqs[s].params.preserveCritical) =>
              LET old == {i \in DOMAIN store :
                             /\ store[i].timestamp < reqs[s].params.cutoffDate
                             /\ store[i].riskLevel # "critical"}
              IN  /\ DOMAIN store' = DOMAIN store \ old
                  /\ \A i \in DOMAIN store' : store'[i] = store[i]
                  /\ reqs'[s].count = Cardinality(old)]_vars

\* a delete with preserveCritical removed one record and answered 1, and a
\* critical record older than the cutoff is still in the store
C14_Witness ==
    \E s \in Slots :
        /\ reqs[s].pc = "done" /\ reqs[s].status = 200
        /\ reqs[s].params.action = "delete" /\ reqs[s].params.preserveCritical
        /\ reqs[s].count = 1 /\ Cardinality(reqs[s].removed) = 1
        /\ \E i \in DOMAIN store :
              /\ store[i].riskLevel = "critical"
              /\ store[i].timestamp < reqs[s].params.cutoffDate

\* C15: the count a cleanup answers with is the number of records that call
\* removed or marked, also when two cleanups overlap and when archive could not
\* mark a selected record.
C15_CountIsWhatWasDone ==
    \A s \in Slots :
        (reqs[s].pc = "done" /\ reqs[s].status = 200) =>
            reqs[s].count = Cardinality(reqs[s].removed \cup reqs[s].marked)

\* C16: after a cleanup with action archive every record it selected is still
\* in the store and carries the archived mark, and the call removed none.
C16_ArchiveMarksSelected ==
    \A s \in Slots :
        (reqs[s].pc = "done" /\ reqs[s].status = 200 /\ reqs[s].params.action = "archive") =>
            /\ reqs[s].removed = {}
            /\ reqs[s].marked = reqs[s].selected

\* the request's options with a single risk level instead
SingleLevel(query, level) ==
    [securityOptions(query) EXCEPT !.riskLevel = [value |-> level]]

\* C18: the security events returned for riskLevel = ['high', 'critical'] (page
\* and limit not cutting the result) are the records returned for riskLevel =
\* 'high' together with those returned for riskLevel = 'critical' under the same
\* flagged and date filters, each record once. (The log is the one the query
\* ran on: nothing is written to it once a query has been answered.)
C18_SecurityEventsAreUnion ==
    (/\ out.op = "view_security_events"
     /\ securityOptions(out.query).riskLevel.array = <<"high", "critical">>) =>
        LET high == findSecurityEvents(store, SingleLevel(out.query, "high"))
            critical == findSecurityEvents(store, SingleLevel(out.query, "critical"))
        IN  /\ Range(out.logs) = high \cup critical
            /\ Len(out.logs) = Cardinality(high \cup critical)
            /\ \A logs \in getSecurityEvents(store, SingleLevel(out.query, "high")) :
                  Range(logs) = high /\ Len(logs) = Cardinality(high)
            /\ \A logs \in getSecurityEvents(store, SingleLevel(out.query, "critical")) :
                  Range(logs) = critical /\ Len(logs) = Cardinality(critical)

\* a query for both levels, unflagged ones only, returned a high and a critical
\* record
C18_Witness ==
    /\ out.op = "view_security_events"
    /\ "riskLevel" \in DOMAIN out.query /\ "array" \in DOMAIN out.query.riskLevel
    /\ "flagged" \in DOMAIN out.query /\ out.query.flagged = "false"
    /\ Len(out.logs) = 2
    /\ {store[i].riskLevel : i \in Range(out.logs) \cap DOMAIN store} = {"high", "critical"}

\* the records of the log within the period of the last report
InReportPeriod == {i \in DOMAIN store : inPeriod(out.startDate, out.endDate, store[i])}

\* C19: the complianceScore of a report is max(0, 100 - 5*criticalEvents -
\* 2*flaggedEvents) for the numbers of critical and of flagged records within
\* the period asked for; it lies in 0..100 and does not grow when either number
\* grows.
C19_ComplianceScoreFormula ==
    out.op = "generate_compliance_report" =>
        LET c == Cardinality({i \in InReportPeriod : store[i].riskLevel = "critical"})
            f == Cardinality({i \in InReportPeriod : store[i].flagged})
        IN  /\ out.criticalSecurityEvents = c
            /\ out.flaggedActivities = f
            /\ out.complianceScore = IF 5 * c + 2 * f >= 100 THEN 0 ELSE 100 - 5 * c - 2 * f
            /\ out.complianceScore \in 0..100
            /\ complianceScore(c + 1, f) <= out.complianceScore
            /\ complianceScore(c, f + 1) <= out.complianceScore

\* the scenarios: 3 critical and 1 flagged give 83, and 25 critical give 0
C19_Witness ==
    /\ out.op = "generate_compliance_report"
    /\ \/ /\ out.criticalSecurityEvents = 3 /\ out.flaggedActivities = 1
          /\ out.complianceScore = 83
       \/ /\ out.criticalSecurityEvents = 25 /\ out.flaggedActivities = 0
          /\ out.complianceScore = 0

\* the lines of a text: one more than its line breaks
LineBreaks(text) == Cardinality({k \in DOMAIN text : text[k] = "\n"})

\* C20: the CSV text of N records has N + 1 lines when N > 0, the first being
\* the keys of the first record joined by commas, and is the empty text when
\* N = 0.
C20_CsvHasHeaderAndOneLinePerRecord ==
    out.op = "convertToCSV" =>
        IF Len(out.logs) = 0
        THEN out.csv = <<>>
        ELSE /\ LineBreaks(out.csv) + 1 = Len(out.logs) + 1
             /\ \E k \in DOMAIN out.csv :
                   /\ SubSeq(out.csv, 1, k) =
                          join([j \in DOMAIN out.logs[1] |-> out.logs[1][j].key], <<",">>)
                   /\ (k = Len(out.csv) \/ out.csv[k + 1] = "\n")

\* the records that delete cleanups removed
RemovedByDelete ==
    UNION {reqs[s].removed : s \in {x \in Slots : reqs[x].op = "cleanup_audit_logs"
                                                  /\ reqs[x].pc = "done"
                                                  /\ reqs[x].status = 200
                                                  /\ reqs[x].params.action = "delete"}}

\* C17: a record that logAction persisted is in the store ever after, whatever
\* is logged, read, flagged or reviewed, unless a cleanup with action delete
\* removed it; a cleanup with action archive removes none.
C17_RemovedOnlyByDeleteCleanup ==
    /\ DOMAIN store \subseteq DOMAIN origin
    /\ DOMAIN origin \ DOMAIN store = RemovedByDelete
    /\ \A s \in Slots :
          (reqs[s].pc = "done" /\ reqs[s].status = 200 /\ reqs[s].params.action = "archive") =>
              reqs[s].removed = {}

\* after a flag and a read were answered a delete cleanup removed a record,
\* and a record logged after it is in the store
C17_Witness ==
    /\ resp.n >= 2 /\ out.op # "none"
    /\ RemovedByDelete # {}
    /\ DOMAIN store # {}
    /\ \E i \in DOMAIN origin \ DOMAIN store : origin[i].doc.action = "hard_delete_user"

\* the hours and the limit an alerts request asked for
AlertHours == IF "hours" \in DOMAIN out.query THEN parseInt(out.query.hours) ELSE DefaultHours

AlertLimit == IF "limit" \in DOMAIN out.query THEN parseInt(out.query.limit) ELSE DefaultAlertLimit

\* the stored records that are alerts of the last AlertHours hours
AlertMatches ==
    {i \in DOMAIN store :
        /\ store[i].timestamp * HoursPerDay >= now * HoursPerDay - AlertHours
        /\ \/ store[i].riskLevel = "critical"
           \/ store[i].flagged = TRUE
           \/ store[i].sensitiveAction = TRUE /\ store[i].success = FALSE}

\* C21: the alerts feed for N hours and limit L returns only records of the last
\* N hours that are critical, flagged, or sensitive and failed, most recent
\* first, at most L of them, and the L most recent ones when more than L match.
C21_AlertsFeed ==
    out.op = "view_security_alerts" =>
        /\ \A k \in DOMAIN out.alerts : out.alerts[k] \in AlertMatches
        /\ \A j, k \in DOMAIN out.alerts :
              j < k => /\ out.alerts[j] # out.alerts[k]
                       /\ store[out.alerts[j]].timestamp >= store[out.alerts[k]].timestamp
        /\ Len(out.alerts) <= AlertLimit
        /\ Cardinality(AlertMatches) > AlertLimit =>
              /\ Len(out.alerts) = AlertLimit
              /\ \A i \in AlertMatches \ Range(out.alerts) :
                    \A k \in DOMAIN out.alerts :
                        store[i].timestamp <= store[out.alerts[k]].timestamp

\* a filter value of a list request that is outside its enumeration
Malformed(query) ==
    \/ "actionCategory" \in DOMAIN query /\ query.actionCategory \notin actionCategoryEnum
    \/ /\ "riskLevel" \in DOMAIN query
       /\ IF "array" \in DOMAIN query.riskLevel
          THEN \E k \in DOMAIN query.riskLevel.array :
                  query.riskLevel.array[k] \notin riskLevelEnum
          ELSE query.riskLevel.value \notin riskLevelEnum

\* C22: a list request with an actionCategory or a riskLevel outside the
\* enumeration is answered with a 4xx status, not with a page and not with a
\* 5xx, and the stored data is unchanged.
C22_MalformedFilterRejected ==
    [][(resp'.n # resp.n /\ resp'.op = "view_audit_logs" /\ Malformed(out'.query)) =>
           /\ resp'.status \in 400..499
           /\ store' = store]_vars

\* the text holds the filter somewhere, whatever the case of the letters
ContainsIgnoreCase(text, filter) ==
    \E pos \in 1..(Len(text) + 1) :
        \A k \in 1..Len(filter) :
            /\ pos + k - 1 <= Len(text)
            /\ lower(filter[k]) = lower(text[pos + k - 1])

\* the record satisfies every filter the list request supplied
SatisfiesFilters(query, doc) ==
    /\ "startDate" \in DOMAIN query => doc.timestamp >= query.startDate
    /\ "endDate" \in DOMAIN query => doc.timestamp <= query.endDate
    /\ "actorId" \in DOMAIN query => doc.actorId = query.actorId
    /\ "targetId" \in DOMAIN query => doc.targetId = query.targetId
    /\ "action" \in DOMAIN query => ContainsIgnoreCase(Spell[doc.action], query.action)
    /\ "actionCategory" \in DOMAIN query => doc.actionCategory = query.actionCategory
    /\ "riskLevel" \in DOMAIN query =>
           IF "array" \in DOMAIN query.riskLevel
           THEN doc.riskLevel \in Range(query.riskLevel.array)
           ELSE doc.riskLevel = query.riskLevel.value
    /\ "success" \in DOMAIN query => (doc.success <=> query.success = "true")
    /\ "flagged" \in DOMAIN query => (doc.flagged <=> query.flagged = "true")
    /\ "reviewed" \in DOMAIN query => (doc.reviewed <=> query.reviewed = "true")
    /\ "sensitiveAction" \in DOMAIN query =>
           (doc.sensitiveAction <=> query.sensitiveAction = "true")
    /\ "actorIP" \in DOMAIN query => doc.actorIP = query.actorIP

\* C24: every record the list returns satisfies every supplied filter, the
\* total is the number of stored records that satisfy them all, and without a
\* sort the page is ordered by timestamp descending.
C24_FiltersCombineWithAnd ==
    out.op = "view_audit_logs" =>
        /\ \A k \in DOMAIN out.logs : SatisfiesFilters(out.query, store[out.logs[k]])
        /\ out.total = Cardinality({i \in DOMAIN store : SatisfiesFilters(out.query, store[i])})
        /\ "sortOrder" \notin DOMAIN out.query =>
              \A j, k \in DOMAIN out.logs :
                  j < k => store[out.logs[j]].timestamp >= store[out.logs[k]].timestamp

\* the lowest role the list and get routes accept, and the mutating routes
LowestReadRole == "moderator"

MutatingRoutes == {"flag", "review", "export", "cleanup"}

\* C23: an active admin holding only the lowest role that the read routes
\* accept is refused with 403 by flag, review, export and cleanup: once the
\* role check of such a request has run, the request is answered 403.
C23_MutatingRoutesNeedElevatedRole ==
    (/\ out.op = "route" /\ out.route \in MutatingRoutes
     /\ out.caller.authenticated /\ out.caller.found
     /\ out.caller.status = "active" /\ out.caller.role = LowestReadRole
     /\ includes(out.ran, "requireRole")) =>
        out.status = 403

\* C26: the middleware chain of a route never stops without calling next or
\* sending a response: a request of an authorized admin on flag, review, export
\* or cleanup always has a function scheduled or a response.
C26_ChainNeverStops ==
    (out.op = "route" /\ out.route \in MutatingRoutes) =>
        (out.at # 0 \/ out.status # 0)

\* the stored records that match the filters of a security-events request: its
\* risk set, its flagged filter and its date range
SecurityMatches ==
    LET q == out.query
        risk == IF "riskLevel" \notin DOMAIN q THEN {"high", "critical"}
                ELSE IF "array" \in DOMAIN q.riskLevel THEN Range(q.riskLevel.array)
                ELSE {q.riskLevel.value}
    IN  {i \in DOMAIN store :
            /\ store[i].riskLevel \in risk
            /\ "flagged" \in DOMAIN q => (store[i].flagged <=> q.flagged = "true")
            /\ q.startDate # NoDate => store[i].timestamp >= q.startDate
            /\ q.endDate # NoDate => store[i].timestamp <= q.endDate}

\* C25: the summary counts of the security-events response are counts over the
\* records that match the request's filters; with the default risk set and no
\* flagged filter criticalEvents + highRiskEvents is the total, for every date
\* range.
C25_SummaryCountsMatchFilters ==
    out.op = "view_security_events" =>
        LET sum == out.securitySummary
        IN  /\ sum.criticalEvents =
                   Cardinality({i \in SecurityMatches : store[i].riskLevel = "critical"})
            /\ sum.highRiskEvents =
                   Cardinality({i \in SecurityMatches : store[i].riskLevel = "high"})
            /\ sum.flaggedEvents =
                   Cardinality({i \in SecurityMatches : store[i].flagged = TRUE})
            /\ sum.unreviewedEvents =
                   Cardinality({i \in SecurityMatches :
                                   /\ store[i].riskLevel \in {"high", "critical"}
                                   /\ store[i].reviewed = FALSE})
            /\ DOMAIN out.query \cap {"riskLevel", "flagged"} = {} =>
                   sum.criticalEvents + sum.highRiskEvents = out.total

\* the review-workflow fields of a record
ReviewFields(doc) ==
    <<doc.flagged, doc.flagReason, doc.reviewed, doc.reviewNotes, doc.reviewedBy,
      doc.reviewedAt>>

\* C27: whenever flagAuditLog or reviewAuditLog answers 400, 404 or 500, the
\* review-workflow fields of the targeted record are what they were before the
\* request, also when the admin activity logging after flag() or review() fails.
C27_FailureLeavesRecordUnchanged ==
    [][(/\ Answered
        /\ resp'.op \in {"flag_audit_log", "review_audit_log"}
        /\ resp'.status \in {400, 404, 500}
        /\ resp'.logId \in DOMAIN store) =>
           /\ resp'.logId \in DOMAIN store'
           /\ ReviewFields(store'[resp'.logId]) = ReviewFields(store[resp'.logId])]_vars

\* C28: with a healthy store every UnitLeader.logActivity call persists exactly
\* one record: after such a call the record it handed to logAction was saved
\* and the store holds one record more than before.
C28_UnitLeaderActivityPersisted ==
    (call # NoCall /\ call.logData.actorType = "unit_leader") =>
        /\ call.saved
        /\ Cardinality(DOMAIN store \ call.idsBefore) = 1

RECURSIVE ParseCsv(_, _, _, _, _, _)
\* the rows of a CSV text, each the sequence of its fields: a quoted field ends
\* at its closing quote, a doubled quote in it is one quote, and commas and
\* line breaks outside quotes separate fields and rows
ParseCsv(text, pos, quoted, field, row, rows) ==
    IF pos > Len(text) THEN Append(rows, Append(row, field))
    ELSE IF quoted
    THEN IF text[pos] = "\"" /\ pos < Len(text) /\ text[pos + 1] = "\""
         THEN ParseCsv(text, pos + 2, TRUE, Append(field, "\""), row, rows)
         ELSE IF text[pos] = "\""
         THEN ParseCsv(text, pos + 1, FALSE, field, row, rows)
         ELSE ParseCsv(text, pos + 1, TRUE, Append(field, text[pos]), row, rows)
    ELSE IF text[pos] = "\"" THEN ParseCsv(text, pos + 1, TRUE, field, row, rows)
    ELSE IF text[pos] = "," THEN ParseCsv(text, pos + 1, FALSE, <<>>, Append(row, field), rows)
    ELSE IF text[pos] = "\n"
    THEN ParseCsv(text, pos + 1, FALSE, <<>>, <<>>, Append(rows, Append(row, field)))
    ELSE ParseCsv(text, pos + 1, FALSE, Append(field, text[pos]), row, rows)

\* the text of the value a record has under a key, empty when it has none
ValueUnder(log, key) ==
    IF \E k \in DOMAIN log : log[k].key = key
    THEN LET value == log[CHOOSE k \in DOMAIN log : log[k].key = key].value
         IN  IF "string" \in DOMAIN value THEN value.string ELSE value.other
    ELSE <<>>

\* C29: in the CSV of a result set that is not empty the header holds the keys
\* of the first record, and every data row has as many fields as the header,
\* its i-th field being the record's value under the i-th header key, also when
\* the records do not all carry the same keys.
C29_CsvRowsFollowHeader ==
    (out.op = "convertToCSV" /\ Len(out.logs) > 0) =>
        LET rows == ParseCsv(out.csv, 1, FALSE, <<>>, <<>>, <<>>)
            header == rows[1]
        IN  /\ Len(rows) = Len(out.logs) + 1
            /\ header = [k \in DOMAIN out.logs[1] |-> out.logs[1][k].key]
            /\ \A n \in DOMAIN out.logs :
                  /\ Len(rows[n + 1]) = Len(header)
                  /\ \A i \in DOMAIN header :
                        rows[n + 1][i] = ValueUnder(out.logs[n], header[i])

====
